---- MODULE Spec2Model ----
(***************************************************************************)
(* A model of the ragsql query pipeline: src/main.py (classifier, intent   *)
(* resolver, retrieval engine, guarded executor, run_query) and the SQL    *)
(* post-processing of src/gemini_generator.py (generate_sql).              *)
(*                                                                         *)
(* Python strings are sequences of one-character strings, so that          *)
(* lower(), strip(), startswith(), splitlines(), split() and the in        *)
(* substring test are computed character by character as the code does.    *)
(* Two characters a TLA+ string cannot hold are written by name: "BACKTICK" *)
(* is the one character U+0060 and "WARNING_SIGN" the emoji of line 104 of *)
(* main.py.                                                                *)
(***************************************************************************)
EXTENDS Integers, Sequences, FiniteSets, TLC

VARIABLES
    pc,            \* position of run_query
    user_query,    \* run_query's argument
    out,           \* the record run_query returns
    conn,          \* the connection object: [opened, closes]
    cursor,        \* the cursor object: [opened, closes]
    executed,      \* every statement handed to cursor.execute, in order
    query_type,    \* detect_query_type's answer
    sql,           \* local sql of run_query
    result,        \* local result of run_query (execute_sql's return value)
    calls,         \* how often each collaborator was called
    raised,        \* TRUE when the except clause of run_query ran
    intent,        \* local intent of run_query
    trace,         \* what retrieve_from_db did in its last call
    sanPc,         \* position of the sanitizer harness
    raw,           \* response.text handed to the sanitizer
    once,          \* the sanitizer applied to raw
    twice          \* the sanitizer applied to once

vars == <<pc, user_query, out, conn, cursor, executed, query_type, sql, result,
          intent, calls, raised, trace, sanPc, raw, once, twice>>

pipeVars == <<pc, user_query, out, conn, cursor, executed, query_type, sql,
              result, intent, calls, raised, trace>>

sanVars == <<sanPc, raw, once, twice>>

----------------------------------------------------------------------------
(* Bounds of the model.                                                    *)

\* Longest query, in vocabulary words.
MaxWords == 2

\* Longest generated model output, in pieces.
MaxPieces == 4

----------------------------------------------------------------------------
(* Python str operations.                                                  *)

UpperChars == <<"A", "B", "C", "D", "E", "F", "G", "H", "I", "J", "K", "L", "M", "N", "O", "P", "Q", "R", "S", "T", "U", "V", "W", "X", "Y", "Z">>

LowerChars == <<"a", "b", "c", "d", "e", "f", "g", "h", "i", "j", "k", "l", "m", "n", "o", "p", "q", "r", "s", "t", "u", "v", "w", "x", "y", "z">>

Digits == <<"0", "1", "2", "3", "4", "5", "6", "7", "8", "9">>

\* One character of str.lower().
LowerChar(c) ==
    IF \E i \in 1..Len(UpperChars) : UpperChars[i] = c
    THEN LowerChars[CHOOSE i \in 1..Len(UpperChars) : UpperChars[i] = c]
    ELSE c

\* str.lower()
Lower(s) == [i \in 1..Len(s) |-> LowerChar(s[i])]

\* The characters str.strip() removes.
Whitespace == {" ", "\n", "\t", "\r"}

\* str.lstrip()
LStrip(s) ==
    IF \A i \in 1..Len(s) : s[i] \in Whitespace
    THEN <<>>
    ELSE LET k == CHOOSE i \in 1..Len(s) :
                      /\ s[i] \notin Whitespace
                      /\ \A j \in 1..(i - 1) : s[j] \in Whitespace
         IN  SubSeq(s, k, Len(s))

\* str.rstrip()
RStrip(s) ==
    IF \A i \in 1..Len(s) : s[i] \in Whitespace
    THEN <<>>
    ELSE LET k == CHOOSE i \in 1..Len(s) :
                      /\ s[i] \notin Whitespace
                      /\ \A j \in (i + 1)..Len(s) : s[j] \in Whitespace
         IN  SubSeq(s, 1, k)

\* str.strip()
Strip(s) == RStrip(LStrip(s))

\* str.startswith(p)
StartsWith(s, p) == Len(s) >= Len(p) /\ SubSeq(s, 1, Len(p)) = p

\* p in s
Contains(s, p) ==
    \E i \in 0..(Len(s) - Len(p)) : SubSeq(s, i + 1, i + Len(p)) = p

\* any(k in s for k in ks)
ContainsAny(s, ks) == \E k \in ks : Contains(s, k)

\* The index of the first c in s, 0 when there is none.
IndexOf(s, c) ==
    IF \E i \in 1..Len(s) : s[i] = c
    THEN CHOOSE i \in 1..Len(s) : s[i] = c /\ \A j \in 1..(i - 1) : s[j] # c
    ELSE 0

\* s.split(c)[0]
SplitHead(s, c) == IF IndexOf(s, c) = 0 THEN s ELSE SubSeq(s, 1, IndexOf(s, c) - 1)

\* s.split(c, 1)[1], for an s that holds c
SplitRest(s, c) == SubSeq(s, IndexOf(s, c) + 1, Len(s))

\* The line boundaries of str.splitlines(): \n, \r and the pair \r\n.
RECURSIVE SplitLinesFrom(_, _)
SplitLinesFrom(s, cur) ==
    IF s = <<>>
    THEN IF cur = <<>> THEN <<>> ELSE <<cur>>
    ELSE IF Head(s) = "\r" /\ Len(s) >= 2 /\ s[2] = "\n"
    THEN <<cur>> \o SplitLinesFrom(SubSeq(s, 3, Len(s)), <<>>)
    ELSE IF Head(s) \in {"\n", "\r"}
    THEN <<cur>> \o SplitLinesFrom(Tail(s), <<>>)
    ELSE SplitLinesFrom(Tail(s), Append(cur, Head(s)))

\* str.splitlines()
SplitLines(s) == SplitLinesFrom(s, <<>>)

\* sep.join(parts)
RECURSIVE Join(_, _)
Join(parts, sep) ==
    IF parts = <<>> THEN <<>>
    ELSE IF Len(parts) = 1 THEN parts[1]
    ELSE parts[1] \o sep \o Join(Tail(parts), sep)

\* The concatenation of a sequence of strings.
RECURSIVE Concat(_)
Concat(parts) == IF parts = <<>> THEN <<>> ELSE Head(parts) \o Concat(Tail(parts))

\* All sequences over S of length 0..n.
SeqsUpTo(S, n) == UNION {[1..k -> S] : k \in 0..n}

----------------------------------------------------------------------------
(* gemini_generator.generate_sql: the post-processing of response.text.    *)

Fence == <<"BACKTICK", "BACKTICK", "BACKTICK">>

SqlTag == <<"s", "q", "l", "\n">>

Semicolon == <<";">>

\* Lines 78-84: drop the first and the last fence line.
StripFences(sql_text) ==
    IF StartsWith(sql_text, Fence)
    THEN LET lines0 == SplitLines(sql_text)
             lines1 == IF lines0 # <<>> /\ StartsWith(lines0[1], Fence)
                       THEN Tail(lines0) ELSE lines0
             lines2 == IF lines1 # <<>> /\ StartsWith(lines1[Len(lines1)], Fence)
                       THEN SubSeq(lines1, 1, Len(lines1) - 1) ELSE lines1
         IN  Strip(Join(lines2, <<"\n">>))
    ELSE sql_text

\* Lines 86-87: drop an initial sql language tag line.
StripSqlTag(sql_text) ==
    IF StartsWith(Lower(sql_text), SqlTag)
    THEN Strip(SplitRest(sql_text, "\n"))
    ELSE sql_text

\* A sanitizer that cuts at the last ';' instead of the first.
SanitizeCutAtLast(text) ==
    LET t == StripSqlTag(StripFences(Strip(text)))
        semis == {i \in 1..Len(t) : t[i] = ";"}
        last == IF semis = {} THEN Len(t) + 1
                ELSE CHOOSE i \in semis : \A j \in semis : j <= i
    IN  Strip(SubSeq(t, 1, last - 1)) \o Semicolon

\* A sanitizer that appends a semicolon without cutting at the first one.
SanitizeNoCut(text) ==
    Strip(StripSqlTag(StripFences(Strip(text)))) \o Semicolon

\* Lines 76-89 of generate_sql.
Sanitize(text) ==
    Strip(SplitHead(StripSqlTag(StripFences(Strip(text))), ";")) \o Semicolon

\* The pieces model outputs are put together from.
Pieces == {Fence, SqlTag, <<"\n">>, Semicolon, <<" ">>, <<"S", "E", "L", "E", "C", "T", " ", "1">>}

\* The fenced output of the specification's round-trip scenario.
FencedSelect1 == <<"BACKTICK", "BACKTICK", "BACKTICK", "s", "q", "l", "\n", "S", "E", "L", "E", "C", "T", " ", "1", ";", "\n", "BACKTICK", "BACKTICK", "BACKTICK">>

\* Model outputs the sanitizer is run on.
RawOutputs ==
    {Concat(p) : p \in SeqsUpTo(Pieces, MaxPieces)}
        \cup {FencedSelect1, <<"BACKTICK", "BACKTICK", "BACKTICK", "S", "Q", "L", "\r", "\n", "s", "e", "l", "e", "c", "t", " ", "1", " ", ";", "\r", "\n", "BACKTICK", "BACKTICK", "BACKTICK", "\n">>, <<"S", "Q", "L", "\n", "S", "E", "L", "E", "C", "T", " ", "1">>}

----------------------------------------------------------------------------
(* Python values that need their type at run time (isinstance, `is None`). *)

None == [type |-> "NoneType", val |-> <<>>]

PyStr(s) == [type |-> "str", val |-> s]

PyList(rows) == [type |-> "list", val |-> rows]

----------------------------------------------------------------------------
(* The table people_info(id, name, age, height, weight, company, role,     *)
(* background) the cursor reads, with id its key.                          *)

people_info ==
    << <<1, <<"A", "s", "m", "i">>, 21, 160, 50, <<"A", "c", "m", "e">>, <<"E", "n", "g", "i", "n", "e", "e", "r">>, <<"d", "a", "t", "a", " ", "s", "c", "i", "e", "n", "c", "e">>>>,
       <<2, <<"R", "a", "v", "i">>, 30, 175, 70, <<"A", "c", "m", "e">>, <<"M", "a", "n", "a", "g", "e", "r">>, <<"s", "a", "l", "e", "s">>>>,
       <<3, <<"M", "i", "n", "a">>, 41, 165, 60, <<"Z", "e", "t", "a">>, <<"A", "n", "a", "l", "y", "s", "t">>, <<"A", "s", "m", "i", " ", "m", "e", "n", "t", "o", "r">>>> >>

\* MySQL's LIKE under the default case-insensitive collation: % matches any
\* run of characters, _ any one character.
RECURSIVE LikeMatch(_, _)
LikeMatch(s, p) ==
    IF p = <<>> THEN s = <<>>
    ELSE IF Head(p) = "%"
    THEN LikeMatch(s, Tail(p)) \/ (s # <<>> /\ LikeMatch(Tail(s), p))
    ELSE /\ s # <<>>
         /\ Head(p) = "_" \/ LowerChar(Head(p)) = LowerChar(Head(s))
         /\ LikeMatch(Tail(s), Tail(p))

----------------------------------------------------------------------------
(* main.py                                                                 *)

\* Line 7.
STOPWORDS ==
    {<<"w", "h", "o">>, <<"i", "s">>, <<"w", "h", "a", "t">>, <<"t", "h", "e">>, <<"a">>, <<"a", "n">>, <<"o", "f">>, <<"i", "n">>, <<"o", "n">>, <<"a", "t">>,
     <<"f", "o", "r">>, <<"t", "o">>}

\* The canned statements of parse_intent, lines 22-42.
SqlNames == <<"S", "E", "L", "E", "C", "T", " ", "i", "d", ",", " ", "n", "a", "m", "e", " ", "F", "R", "O", "M", " ", "p", "e", "o", "p", "l", "e", "_", "i", "n", "f", "o", ";">>

SqlCompanies == <<"S", "E", "L", "E", "C", "T", " ", "D", "I", "S", "T", "I", "N", "C", "T", " ", "c", "o", "m", "p", "a", "n", "y", " ", "F", "R", "O", "M", " ", "p", "e", "o", "p", "l", "e", "_", "i", "n", "f", "o", " ", "W", "H", "E", "R", "E", " ", "c", "o", "m", "p", "a", "n", "y", " ", "I", "S", " ", "N", "O", "T", " ", "N", "U", "L", "L", " ", "A", "N", "D", " ", "c", "o", "m", "p", "a", "n", "y", " ", "!", "=", " ", "'", "'", ";">>

SqlRoles == <<"S", "E", "L", "E", "C", "T", " ", "D", "I", "S", "T", "I", "N", "C", "T", " ", "r", "o", "l", "e", " ", "F", "R", "O", "M", " ", "p", "e", "o", "p", "l", "e", "_", "i", "n", "f", "o", " ", "W", "H", "E", "R", "E", " ", "r", "o", "l", "e", " ", "I", "S", " ", "N", "O", "T", " ", "N", "U", "L", "L", " ", "A", "N", "D", " ", "r", "o", "l", "e", " ", "!", "=", " ", "'", "'", ";">>

SqlAges == <<"S", "E", "L", "E", "C", "T", " ", "i", "d", ",", " ", "n", "a", "m", "e", ",", " ", "a", "g", "e", " ", "F", "R", "O", "M", " ", "p", "e", "o", "p", "l", "e", "_", "i", "n", "f", "o", ";">>

SqlCount == <<"S", "E", "L", "E", "C", "T", " ", "C", "O", "U", "N", "T", "(", "*", ")", " ", "F", "R", "O", "M", " ", "p", "e", "o", "p", "l", "e", "_", "i", "n", "f", "o", ";">>

SqlSum == <<"S", "E", "L", "E", "C", "T", " ", "S", "U", "M", "(", "a", "g", "e", ")", " ", "F", "R", "O", "M", " ", "p", "e", "o", "p", "l", "e", "_", "i", "n", "f", "o", ";">>

SqlAvg == <<"S", "E", "L", "E", "C", "T", " ", "A", "V", "G", "(", "a", "g", "e", ")", " ", "F", "R", "O", "M", " ", "p", "e", "o", "p", "l", "e", "_", "i", "n", "f", "o", ";">>

SqlMax == <<"S", "E", "L", "E", "C", "T", " ", "M", "A", "X", "(", "a", "g", "e", ")", " ", "F", "R", "O", "M", " ", "p", "e", "o", "p", "l", "e", "_", "i", "n", "f", "o", ";">>

SqlMin == <<"S", "E", "L", "E", "C", "T", " ", "M", "I", "N", "(", "a", "g", "e", ")", " ", "F", "R", "O", "M", " ", "p", "e", "o", "p", "l", "e", "_", "i", "n", "f", "o", ";">>

Canned(statement, explain) == [action |-> "sql", sql |-> statement, explain |-> explain]

NoIntent == [action |-> "None", sql |-> <<>>, explain |-> ""]

\* A resolver whose name-listing intent lacks the trigger "name".
parse_intent_without_name(query) ==
    LET q == Lower(query) IN
    IF ContainsAny(q, {<<"n", "a", "m", "e", "s">>, <<"l", "i", "s", "t", " ", "n", "a", "m", "e", "s">>, <<"j", "u", "s", "t", " ", "t", "e", "l", "l", " ", "m", "e", " ", "t", "h", "e", " ", "n", "a", "m", "e", "s">>,
                       <<"t", "e", "l", "l", " ", "m", "e", " ", "t", "h", "e", " ", "n", "a", "m", "e", "s">>, <<"a", "l", "l", " ", "t", "h", "e", " ", "p", "e", "o", "p", "l", "e">>})
    THEN Canned(SqlNames, "list of names")
    ELSE IF ContainsAny(q, {<<"c", "o", "m", "p", "a", "n", "y">>, <<"c", "o", "m", "p", "a", "n", "i", "e", "s">>, <<"l", "i", "s", "t", " ", "c", "o", "m", "p", "a", "n", "i", "e", "s">>,
                            <<"w", "h", "i", "c", "h", " ", "c", "o", "m", "p", "a", "n", "i", "e", "s">>})
    THEN Canned(SqlCompanies, "distinct companies")
    ELSE IF ContainsAny(q, {<<"r", "o", "l", "e">>, <<"r", "o", "l", "e", "s">>, <<"l", "i", "s", "t", " ", "r", "o", "l", "e", "s">>, <<"w", "h", "a", "t", " ", "r", "o", "l", "e", "s">>})
    THEN Canned(SqlRoles, "distinct roles")
    ELSE IF /\ ContainsAny(q, {<<"a", "g", "e">>, <<"a", "g", "e", "s">>, <<"l", "i", "s", "t", " ", "a", "g", "e", "s">>, <<"s", "h", "o", "w", " ", "a", "g", "e", "s">>})
            /\ ContainsAny(q, {<<"l", "i", "s", "t">>, <<"s", "h", "o", "w">>, <<"n", "a", "m", "e", "s">>, <<"j", "u", "s", "t">>})
    THEN Canned(SqlAges, "names and ages")
    ELSE IF \/ Contains(q, <<"c", "o", "u", "n", "t">>)
            \/ ContainsAny(q, {<<"h", "o", "w", " ", "m", "a", "n", "y">>, <<"t", "o", "t", "a", "l", " ", "n", "u", "m", "b", "e", "r">>, <<"n", "u", "m", "b", "e", "r", " ", "o", "f">>})
    THEN Canned(SqlCount, "count")
    ELSE IF ContainsAny(q, {<<"s", "u", "m", " ", "o", "f", " ", "a", "g", "e">>, <<"s", "u", "m", " ", "o", "f", " ", "a", "g", "e", "s">>, <<"t", "o", "t", "a", "l", " ", "a", "g", "e">>,
                            <<"t", "o", "t", "a", "l", " ", "o", "f", " ", "a", "g", "e", "s">>, <<"s", "u", "m", " ", "a", "g", "e", "s">>})
    THEN Canned(SqlSum, "sum of ages")
    ELSE IF ContainsAny(q, {<<"a", "v", "e", "r", "a", "g", "e", " ", "a", "g", "e">>, <<"a", "v", "g", " ", "a", "g", "e">>, <<"a", "v", "e", "r", "a", "g", "e", " ", "o", "f", " ", "a", "g", "e", "s">>,
                            <<"m", "e", "a", "n", " ", "a", "g", "e">>})
    THEN Canned(SqlAvg, "average age")
    ELSE IF ContainsAny(q, {<<"m", "a", "x", " ", "a", "g", "e">>, <<"m", "a", "x", "i", "m", "u", "m", " ", "a", "g", "e">>, <<"o", "l", "d", "e", "s", "t">>})
    THEN Canned(SqlMax, "maximum age")
    ELSE IF ContainsAny(q, {<<"m", "i", "n", " ", "a", "g", "e">>, <<"m", "i", "n", "i", "m", "u", "m", " ", "a", "g", "e">>, <<"y", "o", "u", "n", "g", "e", "s", "t">>})
    THEN Canned(SqlMin, "minimum age")
    ELSE NoIntent

\* Lines 10-44.
parse_intent(query) ==
    LET q == Lower(query) IN
    IF ContainsAny(q, {<<"n", "a", "m", "e">>, <<"n", "a", "m", "e", "s">>, <<"l", "i", "s", "t", " ", "n", "a", "m", "e", "s">>, <<"j", "u", "s", "t", " ", "t", "e", "l", "l", " ", "m", "e", " ", "t", "h", "e", " ", "n", "a", "m", "e", "s">>,
                       <<"t", "e", "l", "l", " ", "m", "e", " ", "t", "h", "e", " ", "n", "a", "m", "e", "s">>, <<"a", "l", "l", " ", "t", "h", "e", " ", "p", "e", "o", "p", "l", "e">>})
    THEN Canned(SqlNames, "list of names")
    ELSE IF ContainsAny(q, {<<"c", "o", "m", "p", "a", "n", "y">>, <<"c", "o", "m", "p", "a", "n", "i", "e", "s">>, <<"l", "i", "s", "t", " ", "c", "o", "m", "p", "a", "n", "i", "e", "s">>,
                            <<"w", "h", "i", "c", "h", " ", "c", "o", "m", "p", "a", "n", "i", "e", "s">>})
    THEN Canned(SqlCompanies, "distinct companies")
    ELSE IF ContainsAny(q, {<<"r", "o", "l", "e">>, <<"r", "o", "l", "e", "s">>, <<"l", "i", "s", "t", " ", "r", "o", "l", "e", "s">>, <<"w", "h", "a", "t", " ", "r", "o", "l", "e", "s">>})
    THEN Canned(SqlRoles, "distinct roles")
    ELSE IF /\ ContainsAny(q, {<<"a", "g", "e">>, <<"a", "g", "e", "s">>, <<"l", "i", "s", "t", " ", "a", "g", "e", "s">>, <<"s", "h", "o", "w", " ", "a", "g", "e", "s">>})
            /\ ContainsAny(q, {<<"l", "i", "s", "t">>, <<"s", "h", "o", "w">>, <<"n", "a", "m", "e", "s">>, <<"j", "u", "s", "t">>})
    THEN Canned(SqlAges, "names and ages")
    ELSE IF \/ Contains(q, <<"c", "o", "u", "n", "t">>)
            \/ ContainsAny(q, {<<"h", "o", "w", " ", "m", "a", "n", "y">>, <<"t", "o", "t", "a", "l", " ", "n", "u", "m", "b", "e", "r">>, <<"n", "u", "m", "b", "e", "r", " ", "o", "f">>})
    THEN Canned(SqlCount, "count")
    ELSE IF ContainsAny(q, {<<"s", "u", "m", " ", "o", "f", " ", "a", "g", "e">>, <<"s", "u", "m", " ", "o", "f", " ", "a", "g", "e", "s">>, <<"t", "o", "t", "a", "l", " ", "a", "g", "e">>,
                            <<"t", "o", "t", "a", "l", " ", "o", "f", " ", "a", "g", "e", "s">>, <<"s", "u", "m", " ", "a", "g", "e", "s">>})
    THEN Canned(SqlSum, "sum of ages")
    ELSE IF ContainsAny(q, {<<"a", "v", "e", "r", "a", "g", "e", " ", "a", "g", "e">>, <<"a", "v", "g", " ", "a", "g", "e">>, <<"a", "v", "e", "r", "a", "g", "e", " ", "o", "f", " ", "a", "g", "e", "s">>,
                            <<"m", "e", "a", "n", " ", "a", "g", "e">>})
    THEN Canned(SqlAvg, "average age")
    ELSE IF ContainsAny(q, {<<"m", "a", "x", " ", "a", "g", "e">>, <<"m", "a", "x", "i", "m", "u", "m", " ", "a", "g", "e">>, <<"o", "l", "d", "e", "s", "t">>})
    THEN Canned(SqlMax, "maximum age")
    ELSE IF ContainsAny(q, {<<"m", "i", "n", " ", "a", "g", "e">>, <<"m", "i", "n", "i", "m", "u", "m", " ", "a", "g", "e">>, <<"y", "o", "u", "n", "g", "e", "s", "t">>})
    THEN Canned(SqlMin, "minimum age")
    ELSE NoIntent

\* The keyword list without "count" and "total".
analytical_keywords_without_count ==
    {<<"h", "o", "w", " ", "m", "a", "n", "y">>, <<"a", "v", "e", "r", "a", "g", "e">>, <<"s", "u", "m">>, <<"r", "o", "w", "s">>, <<"m", "a", "x", "i", "m", "u", "m">>, <<"m", "i", "n", "i", "m", "u", "m">>,
     <<"n", "u", "m", "b", "e", "r", " ", "o", "f">>, <<"a", "g", "e">>, <<"s", "a", "l", "a", "r", "y">>}

\* Lines 48-51.
analytical_keywords ==
    {<<"h", "o", "w", " ", "m", "a", "n", "y">>, <<"c", "o", "u", "n", "t">>, <<"a", "v", "e", "r", "a", "g", "e">>, <<"s", "u", "m">>, <<"t", "o", "t", "a", "l">>, <<"r", "o", "w", "s">>, <<"m", "a", "x", "i", "m", "u", "m">>,
     <<"m", "i", "n", "i", "m", "u", "m">>, <<"n", "u", "m", "b", "e", "r", " ", "o", "f">>, <<"t", "o", "t", "a", "l", " ", "n", "u", "m", "b", "e", "r">>, <<"a", "g", "e">>, <<"s", "a", "l", "a", "r", "y">>}

\* A classifier that compares the query without lower-casing it.
detect_query_type_case_sensitive(query) ==
    IF ContainsAny(query, analytical_keywords) THEN "sql_query" ELSE "retrieval"

\* Lines 47-54.
detect_query_type(query) ==
    IF ContainsAny(Lower(query), analytical_keywords) THEN "sql_query" ELSE "retrieval"

\* Lines 58-64: the statement of the retrieval engine, as written.
RetrievalSql == <<"\n", " ", " ", " ", " ", " ", " ", " ", " ", "S", "E", "L", "E", "C", "T", " ", "*", " ", "F", "R", "O", "M", " ", "p", "e", "o", "p", "l", "e", "_", "i", "n", "f", "o", "\n", " ", " ", " ", " ", " ", " ", " ", " ", "W", "H", "E", "R", "E", " ", "n", "a", "m", "e", " ", "L", "I", "K", "E", " ", "%", "s", "\n", " ", " ", " ", " ", " ", " ", " ", " ", "O", "R", " ", "c", "o", "m", "p", "a", "n", "y", " ", "L", "I", "K", "E", " ", "%", "s", "\n", " ", " ", " ", " ", " ", " ", " ", " ", "O", "R", " ", "r", "o", "l", "e", " ", "L", "I", "K", "E", " ", "%", "s", "\n", " ", " ", " ", " ", " ", " ", " ", " ", "O", "R", " ", "b", "a", "c", "k", "g", "r", "o", "u", "n", "d", " ", "L", "I", "K", "E", " ", "%", "s", ";", "\n", " ", " ", " ", " ">>

\* One call of cursor.execute: the statement and the value bound to its %s.
Execute(statement, param) == [stmt |-> statement, param |-> param]

\* Lines 59-63: the rows the statement selects for one wildcard.
Search(wildcard) ==
    SelectSeq(people_info,
              LAMBDA row : \/ LikeMatch(row[2], wildcard)
                           \/ LikeMatch(row[6], wildcard)
                           \/ LikeMatch(row[7], wildcard)
                           \/ LikeMatch(row[8], wildcard))

\* f"%{x}%"
Wildcard(x) == <<"%">> \o x \o <<"%">>

\* The characters \w matches.
WordChars ==
    {UpperChars[i] : i \in 1..Len(UpperChars)}
        \cup {LowerChars[i] : i \in 1..Len(LowerChars)}
        \cup {Digits[i] : i \in 1..Len(Digits)} \cup {"_"}

\* re.findall(r"\w+", s)
RECURSIVE FindWordsFrom(_, _)
FindWordsFrom(s, cur) ==
    IF s = <<>>
    THEN IF cur = <<>> THEN <<>> ELSE <<cur>>
    ELSE IF Head(s) \in WordChars
    THEN FindWordsFrom(Tail(s), Append(cur, Head(s)))
    ELSE (IF cur = <<>> THEN <<>> ELSE <<cur>>) \o FindWordsFrom(Tail(s), <<>>)

FindWords(s) == FindWordsFrom(s, <<>>)

\* Line 79.
Tokens(query) ==
    SelectSeq(FindWords(query), LAMBDA t : Lower(t) \notin STOPWORDS /\ Len(t) > 2)

\* A fallback that collects the rows in a list, without the dict.
DictPutNoDedup(found, row) == Append(found, row)

\* found[key] = row  (a dict keeps the position of a key it already holds)
DictPut(found, row) ==
    IF \E i \in 1..Len(found) : found[i][1] = row[1]
    THEN [i \in 1..Len(found) |-> IF found[i][1] = row[1] THEN row ELSE found[i]]
    ELSE Append(found, row)

\* Lines 84-87 for the rows of one token.
RECURSIVE PutAll(_, _)
PutAll(found, rows) ==
    IF rows = <<>> THEN found ELSE PutAll(DictPut(found, Head(rows)), Tail(rows))

\* Lines 80-87: list(found.values()) after the loop over the tokens.
RECURSIVE TokenFallback(_, _)
TokenFallback(found, tokens) ==
    IF tokens = <<>> THEN found
    ELSE TokenFallback(PutAll(found, Search(Wildcard(Head(tokens)))), Tail(tokens))

\* Line 67.
NameShortcut(query) ==
    LET normalized == Lower(query) IN
    /\ Contains(normalized, <<"n", "a", "m", "e">>) \/ Contains(normalized, <<"n", "a", "m", "e", "s">>)
    /\ ContainsAny(normalized, {<<"a", "l", "l">>, <<"l", "i", "s", "t">>, <<"t", "e", "l", "l">>, <<"s", "h", "o", "w">>, <<"j", "u", "s", "t">>})

\* The rows the canned name statement of line 68 selects.
IdsAndNames == [i \in 1..Len(people_info) |-> <<people_info[i][1], people_info[i][2]>>]

\* Lines 57-93, when no cursor.execute raises: the calls of cursor.execute in
\* order and the list returned.
retrieve_from_db(query) ==
    IF NameShortcut(query)
    THEN [shortcut |-> TRUE, full |-> <<>>, tokens |-> <<>>,
          executes |-> <<Execute(SqlNames, <<>>)>>,
          results |-> IdsAndNames]
    ELSE LET full == Search(Wildcard(query)) IN
         IF full = <<>>
         THEN LET tokens == Tokens(query)
                  found == TokenFallback(<<>>, tokens)
              IN  [shortcut |-> FALSE, full |-> full, tokens |-> tokens,
                   executes |-> <<Execute(RetrievalSql, Wildcard(query))>>
                       \o [i \in 1..Len(tokens) |->
                              Execute(RetrievalSql, Wildcard(tokens[i]))],
                   results |-> IF found # <<>> THEN found ELSE full]
         ELSE [shortcut |-> FALSE, full |-> full, tokens |-> <<>>,
               executes |-> <<Execute(RetrievalSql, Wildcard(query))>>,
               results |-> full]

\* Line 98.
Advisory == <<" ", "O", "n", "l", "y", " ", "S", "E", "L", "E", "C", "T", " ", "q", "u", "e", "r", "i", "e", "s", " ", "a", "r", "e", " ", "a", "l", "l", "o", "w", "e", "d", " ", "f", "o", "r", " ", "s", "a", "f", "e", "t", "y", ".">>

\* Line 104: the text in front of the exception's message.
SqlErrorPrefix == <<"WARNING_SIGN", "S", "Q", "L", " ", "E", "r", "r", "o", "r", ":", " ">>

\* The message of the exception a failing cursor.execute raises.
DbError == <<"d", "b", " ", "e", "r", "r", "o", "r">>

\* The message of the exception a failing model call raises.
LlmError == <<"m", "o", "d", "e", "l", " ", "e", "r", "r", "o", "r">>

\* The message of the exception a failing get_connection or conn.cursor raises.
ConnError == <<"c", "o", "n", "n", "e", "c", "t", "i", "o", "n", " ", "e", "r", "r", "o", "r">>

\* What the database does with one statement handed to cursor.execute by
\* execute_sql: it raises, or fetchall returns a list of rows.
DbOutcomes ==
    {[raises |-> TRUE, rows |-> <<>>],
     [raises |-> FALSE, rows |-> <<>>],
     [raises |-> FALSE, rows |-> << <<3>> >>]}

\* An executor without the guard of lines 97-98.
execute_sql_unguarded(statement, db) ==
    IF db.raises
    THEN [result |-> PyStr(SqlErrorPrefix \o DbError),
          executes |-> <<Execute(statement, <<>>)>>]
    ELSE [result |-> PyList(db.rows), executes |-> <<Execute(statement, <<>>)>>]

\* Lines 96-104: the value returned and the calls of cursor.execute made.
execute_sql(statement, db) ==
    IF ~StartsWith(Lower(statement), <<"s", "e", "l", "e", "c", "t">>)
    THEN [result |-> PyStr(Advisory), executes |-> <<>>]
    ELSE IF db.raises
    THEN [result |-> PyStr(SqlErrorPrefix \o DbError),
          executes |-> <<Execute(statement, <<>>)>>]
    ELSE [result |-> PyList(db.rows), executes |-> <<Execute(statement, <<>>)>>]

----------------------------------------------------------------------------
(* The inputs of run_query.                                                *)

\* The words generated queries are put together from.
Vocabulary ==
    {<<"n", "a", "m", "e">>, <<"c", "o", "m", "p", "a", "n", "y">>, <<"r", "o", "l", "e">>, <<"a", "g", "e">>, <<"l", "i", "s", "t">>, <<"s", "h", "o", "w">>, <<"c", "o", "u", "n", "t">>, <<"t", "o", "t", "a", "l">>,
     <<"o", "l", "d", "e", "s", "t">>, <<"y", "o", "u", "n", "g", "e", "s", "t">>, <<"w", "h", "o">>, <<"i", "s">>, <<"A", "s", "m", "i">>, <<"A", "c", "m", "e">>}

\* Every trigger phrase of parse_intent (lines 21-41) and every keyword of
\* detect_query_type (lines 49-50), each as a query of its own.
TriggerPhrases ==
    {<<"n", "a", "m", "e">>, <<"n", "a", "m", "e", "s">>, <<"l", "i", "s", "t", " ", "n", "a", "m", "e", "s">>, <<"j", "u", "s", "t", " ", "t", "e", "l", "l", " ", "m", "e", " ", "t", "h", "e", " ", "n", "a", "m", "e", "s">>,
     <<"t", "e", "l", "l", " ", "m", "e", " ", "t", "h", "e", " ", "n", "a", "m", "e", "s">>, <<"a", "l", "l", " ", "t", "h", "e", " ", "p", "e", "o", "p", "l", "e">>, <<"c", "o", "m", "p", "a", "n", "y">>, <<"c", "o", "m", "p", "a", "n", "i", "e", "s">>,
     <<"l", "i", "s", "t", " ", "c", "o", "m", "p", "a", "n", "i", "e", "s">>, <<"w", "h", "i", "c", "h", " ", "c", "o", "m", "p", "a", "n", "i", "e", "s">>, <<"r", "o", "l", "e">>, <<"r", "o", "l", "e", "s">>, <<"l", "i", "s", "t", " ", "r", "o", "l", "e", "s">>,
     <<"w", "h", "a", "t", " ", "r", "o", "l", "e", "s">>, <<"a", "g", "e">>, <<"a", "g", "e", "s">>, <<"l", "i", "s", "t", " ", "a", "g", "e", "s">>, <<"s", "h", "o", "w", " ", "a", "g", "e", "s">>, <<"c", "o", "u", "n", "t">>,
     <<"h", "o", "w", " ", "m", "a", "n", "y">>, <<"t", "o", "t", "a", "l", " ", "n", "u", "m", "b", "e", "r">>, <<"n", "u", "m", "b", "e", "r", " ", "o", "f">>, <<"s", "u", "m", " ", "o", "f", " ", "a", "g", "e">>, <<"s", "u", "m", " ", "o", "f", " ", "a", "g", "e", "s">>,
     <<"t", "o", "t", "a", "l", " ", "a", "g", "e">>, <<"t", "o", "t", "a", "l", " ", "o", "f", " ", "a", "g", "e", "s">>, <<"s", "u", "m", " ", "a", "g", "e", "s">>, <<"a", "v", "e", "r", "a", "g", "e", " ", "a", "g", "e">>, <<"a", "v", "g", " ", "a", "g", "e">>,
     <<"a", "v", "e", "r", "a", "g", "e", " ", "o", "f", " ", "a", "g", "e", "s">>, <<"m", "e", "a", "n", " ", "a", "g", "e">>, <<"m", "a", "x", " ", "a", "g", "e">>, <<"m", "a", "x", "i", "m", "u", "m", " ", "a", "g", "e">>, <<"o", "l", "d", "e", "s", "t">>,
     <<"m", "i", "n", " ", "a", "g", "e">>, <<"m", "i", "n", "i", "m", "u", "m", " ", "a", "g", "e">>, <<"y", "o", "u", "n", "g", "e", "s", "t">>, <<"a", "v", "e", "r", "a", "g", "e">>, <<"s", "u", "m">>, <<"t", "o", "t", "a", "l">>,
     <<"r", "o", "w", "s">>, <<"m", "a", "x", "i", "m", "u", "m">>, <<"m", "i", "n", "i", "m", "u", "m">>, <<"s", "a", "l", "a", "r", "y">>}

\* The queries of the specification's scenarios, and queries in other cases.
NamedQueries ==
    {<<"w", "h", "o", " ", "i", "s", " ", "A", "s", "m", "i", "?">>, <<"h", "o", "w", " ", "m", "a", "n", "y", " ", "p", "e", "o", "p", "l", "e", " ", "a", "r", "e", " ", "t", "h", "e", "r", "e">>, <<"j", "u", "s", "t", " ", "l", "i", "s", "t", " ", "n", "a", "m", "e", "s">>,
     <<"S", "h", "o", "w", " ", "A", "g", "e", "s">>, <<"W", "h", "o", " ", "i", "s", " ", "t", "h", "e", " ", "O", "L", "D", "E", "S", "T">>, <<"t", "h", "e", " ", "y", "o", "u", "n", "g", "e", "s", "t", " ", "m", "a", "n", "a", "g", "e", "r">>,
     <<"e", "n", "g", "i", "n", "e", "e", "r", " ", "a", "t", " ", "a", "c", "m", "e">>, <<"a", "s", "m", "i", " ", "s", "a", "l", "e", "s", " ", "m", "e">>, <<"s", "a", "l", "e", "s", "_", "l", "e", "a", "d", " ", "1", "0", "0", "%">>}

Queries ==
    {Join(w, <<" ">>) : w \in SeqsUpTo(Vocabulary, MaxWords)}
        \cup TriggerPhrases \cup NamedQueries

\* The texts the model answers generate_sql's prompt with.
ModelOutputs ==
    {FencedSelect1, <<"s", "e", "l", "e", "c", "t", " ", "c", "o", "u", "n", "t", "(", "*", ")", " ", "f", "r", "o", "m", " ", "p", "e", "o", "p", "l", "e", "_", "i", "n", "f", "o">>, <<"D", "R", "O", "P", " ", "T", "A", "B", "L", "E", " ", "p", "e", "o", "p", "l", "e", "_", "i", "n", "f", "o", ";", " ", "S", "E", "L", "E", "C", "T", " ", "1">>,
     <<" ", "S", "e", "l", "e", "c", "t", " ", "n", "a", "m", "e", " ", "f", "r", "o", "m", " ", "p", "e", "o", "p", "l", "e", "_", "i", "n", "f", "o", " ", "w", "h", "e", "r", "e", " ", "a", "g", "e", " ", ">", " ", "3", "0", ";">>}

\* response.text of generate_answer and explain_sql_result.
AnswerText == <<"a", "n", "s", "w", "e", "r">>

\* Line 201.
NoDataText == <<"N", "o", " ", "r", "e", "l", "e", "v", "a", "n", "t", " ", "d", "a", "t", "a", " ", "f", "o", "u", "n", "d", ".">>

----------------------------------------------------------------------------
(* run_query, lines 162-219.                                               *)

\* Lines 172-178.
EmptyOut ==
    [generated_sql |-> None, sql_result |-> None, retrieved_context |-> None,
     model_answer |-> None, error |-> None]

NoCalls ==
    [generate_sql |-> 0, explain_sql_result |-> 0, generate_answer |-> 0,
     retrieve_from_db |-> 0]

NoTrace ==
    [called |-> FALSE, completed |-> FALSE, shortcut |-> FALSE, full |-> <<>>,
     tokens |-> <<>>, results |-> <<>>]

Closed == [opened |-> FALSE, closes |-> 0]

PipeInit ==
    /\ pc = "idle"
    /\ user_query = <<>>
    /\ out = EmptyOut
    /\ conn = Closed
    /\ cursor = Closed
    /\ executed = <<>>
    /\ query_type = ""
    /\ intent = NoIntent
    /\ sql = <<>>
    /\ result = None
    /\ calls = NoCalls
    /\ raised = FALSE
    /\ trace = NoTrace

\* An except clause that hands back an empty record with the error.
RaiseAndDiscard(message) ==
    /\ pc' = "returned"
    /\ raised' = TRUE
    /\ out' = [EmptyOut EXCEPT !.error = PyStr(message)]
    /\ UNCHANGED <<conn, cursor>>

\* Lines 216-219: an exception raised inside the try block.
Raise(message) ==
    /\ pc' = "returned"
    /\ raised' = TRUE
    /\ out' = [out EXCEPT !.error = PyStr(message)]
    /\ UNCHANGED <<conn, cursor>>

\* Lines 214-215 and 195-196.
CloseBoth ==
    /\ cursor' = [cursor EXCEPT !.closes = @ + 1]
    /\ conn' = [conn EXCEPT !.closes = @ + 1]

\* The caller calls run_query(q); lines 172-178.
Start ==
    /\ pc = "idle"
    /\ \E q \in Queries : user_query' = q
    /\ out' = EmptyOut
    /\ pc' = "connect"
    /\ UNCHANGED <<conn, cursor, executed, query_type, intent, sql, result, calls,
                   raised, trace, sanVars>>

\* Line 181.
GetConnection ==
    /\ pc = "connect"
    /\ \/ /\ conn' = [conn EXCEPT !.opened = TRUE]
          /\ pc' = "cursor"
          /\ UNCHANGED <<out, cursor, raised>>
       \/ Raise(ConnError)
    /\ UNCHANGED <<user_query, executed, query_type, intent, sql, result, calls,
                   trace, sanVars>>

\* Line 182.
OpenCursor ==
    /\ pc = "cursor"
    /\ \/ /\ cursor' = [cursor EXCEPT !.opened = TRUE]
          /\ pc' = "classify"
          /\ UNCHANGED <<out, conn, raised>>
       \/ Raise(ConnError)
    /\ UNCHANGED <<user_query, executed, query_type, intent, sql, result, calls,
                   trace, sanVars>>

\* Lines 184, 186 and 206.
Classify ==
    /\ pc = "classify"
    /\ query_type' = detect_query_type(user_query)
    /\ pc' = IF query_type' = "retrieval" THEN "intent" ELSE "generate"
    /\ UNCHANGED <<user_query, out, conn, cursor, executed, intent, sql, result,
                   calls, raised, trace, sanVars>>

\* Lines 187-190.
ResolveIntent ==
    /\ pc = "intent"
    /\ intent' = parse_intent(user_query)
    /\ IF intent'.action = "sql"
       THEN /\ sql' = intent'.sql
            /\ out' = [out EXCEPT !.generated_sql = PyStr(intent'.sql)]
            /\ pc' = "canned_execute"
       ELSE /\ pc' = "retrieve"
            /\ UNCHANGED <<sql, out>>
    /\ UNCHANGED <<user_query, conn, cursor, executed, query_type, result, calls,
                   raised, trace, sanVars>>

\* The execute step without the isinstance test: the explainer always runs.
ExecuteStepNoTypeTest(explainPc, closePc) ==
    \E db \in DbOutcomes :
        LET r == execute_sql(sql, db) IN
        /\ result' = r.result
        /\ executed' = executed \o r.executes
        /\ out' = [out EXCEPT !.sql_result = r.result]
        /\ pc' = explainPc

\* Lines 191-193 and 209-211: execute_sql and the isinstance test.
ExecuteStep(explainPc, closePc) ==
    \E db \in DbOutcomes :
        LET r == execute_sql(sql, db) IN
        /\ result' = r.result
        /\ executed' = executed \o r.executes
        /\ out' = [out EXCEPT !.sql_result = r.result]
        /\ pc' = IF r.result.type = "list" THEN explainPc ELSE closePc

\* Lines 194 and 212: explain_sql_result returns a text or raises.
ExplainStep(closePc) ==
    /\ calls' = [calls EXCEPT !.explain_sql_result = @ + 1]
    /\ \/ /\ out' = [out EXCEPT !.model_answer = PyStr(AnswerText)]
          /\ pc' = closePc
          /\ UNCHANGED <<conn, cursor, raised>>
       \/ Raise(LlmError)

\* Lines 191-193.
CannedExecute ==
    /\ pc = "canned_execute"
    /\ ExecuteStep("canned_explain", "canned_close")
    /\ UNCHANGED <<user_query, conn, cursor, query_type, intent, sql, calls,
                   raised, trace, sanVars>>

\* Line 194.
CannedExplain ==
    /\ pc = "canned_explain"
    /\ ExplainStep("canned_close")
    /\ UNCHANGED <<user_query, executed, query_type, intent, sql, result, trace,
                   sanVars>>

\* Lines 195-197.
CannedClose ==
    /\ pc = "canned_close"
    /\ CloseBoth
    /\ pc' = "returned"
    /\ UNCHANGED <<user_query, out, executed, query_type, intent, sql, result,
                   calls, raised, trace, sanVars>>

\* Lines 199-203: retrieve_from_db runs to its end, or one of its calls of
\* cursor.execute raises.
Retrieve ==
    /\ pc = "retrieve"
    /\ calls' = [calls EXCEPT !.retrieve_from_db = @ + 1]
    /\ LET r == retrieve_from_db(user_query) IN
       \/ /\ executed' = executed \o r.executes
          /\ trace' = [called |-> TRUE, completed |-> TRUE, shortcut |-> r.shortcut,
                       full |-> r.full, tokens |-> r.tokens, results |-> r.results]
          /\ IF r.results = <<>>
             THEN /\ out' = [out EXCEPT !.model_answer = PyStr(NoDataText)]
                  /\ pc' = "close"
             ELSE /\ out' = [out EXCEPT !.retrieved_context = PyList(r.results)]
                  /\ pc' = "answer"
          /\ UNCHANGED <<conn, cursor, raised>>
       \/ \E k \in 1..Len(r.executes) :
             /\ executed' = executed \o SubSeq(r.executes, 1, k)
             /\ trace' = [NoTrace EXCEPT !.called = TRUE, !.shortcut = r.shortcut]
             /\ Raise(DbError)
    /\ UNCHANGED <<user_query, query_type, intent, sql, result, sanVars>>

\* Line 204.
GenerateAnswer ==
    /\ pc = "answer"
    /\ calls' = [calls EXCEPT !.generate_answer = @ + 1]
    /\ \/ /\ out' = [out EXCEPT !.model_answer = PyStr(AnswerText)]
          /\ pc' = "close"
          /\ UNCHANGED <<conn, cursor, raised>>
       \/ Raise(LlmError)
    /\ UNCHANGED <<user_query, executed, query_type, intent, sql, result, trace,
                   sanVars>>

\* Lines 207-208: generate_sql returns the sanitized model output, or the
\* model call raises.
GenerateSql ==
    /\ pc = "generate"
    /\ calls' = [calls EXCEPT !.generate_sql = @ + 1]
    /\ \/ /\ \E text \in ModelOutputs : sql' = Sanitize(text)
          /\ out' = [out EXCEPT !.generated_sql = PyStr(sql')]
          /\ pc' = "execute"
          /\ UNCHANGED <<conn, cursor, raised>>
       \/ /\ Raise(LlmError)
          /\ UNCHANGED sql
    /\ UNCHANGED <<user_query, executed, query_type, intent, result, trace,
                   sanVars>>

\* Lines 209-211.
Execute_ ==
    /\ pc = "execute"
    /\ ExecuteStep("explain", "close")
    /\ UNCHANGED <<user_query, conn, cursor, query_type, intent, sql, calls,
                   raised, trace, sanVars>>

\* Line 212.
Explain ==
    /\ pc = "explain"
    /\ ExplainStep("close")
    /\ UNCHANGED <<user_query, executed, query_type, intent, sql, result, trace,
                   sanVars>>

\* Lines 214-215 and 219.
Close ==
    /\ pc = "close"
    /\ CloseBoth
    /\ pc' = "returned"
    /\ UNCHANGED <<user_query, out, executed, query_type, intent, sql, result,
                   calls, raised, trace, sanVars>>

\* The caller has the record; the objects of the invocation are dropped.
NextInvocation ==
    /\ pc = "returned"
    /\ pc' = "idle"
    /\ user_query' = <<>>
    /\ out' = EmptyOut
    /\ conn' = Closed
    /\ cursor' = Closed
    /\ executed' = <<>>
    /\ query_type' = ""
    /\ intent' = NoIntent
    /\ sql' = <<>>
    /\ result' = None
    /\ calls' = NoCalls
    /\ raised' = FALSE
    /\ trace' = NoTrace
    /\ UNCHANGED sanVars

----------------------------------------------------------------------------
(* The sanitizer on its own: applied to a model output, then to its own    *)
(* result.                                                                 *)

SanInit ==
    /\ sanPc = "start"
    /\ raw = <<>>
    /\ once = <<>>
    /\ twice = <<>>

SanitizeOnce ==
    /\ sanPc = "start"
    /\ \E x \in RawOutputs :
        /\ raw' = x
        /\ once' = Sanitize(x)
    /\ sanPc' = "once"
    /\ UNCHANGED <<twice, pipeVars>>

SanitizeAgain ==
    /\ sanPc = "once"
    /\ twice' = Sanitize(once)
    /\ sanPc' = "twice"
    /\ UNCHANGED <<raw, once, pipeVars>>

SanitizeReset ==
    /\ sanPc = "twice"
    /\ sanPc' = "start"
    /\ raw' = <<>>
    /\ once' = <<>>
    /\ twice' = <<>>
    /\ UNCHANGED pipeVars

SanNext == SanitizeOnce \/ SanitizeAgain \/ SanitizeReset

----------------------------------------------------------------------------
(* The specifications.                                                     *)

Init == PipeInit /\ SanInit

Next ==
    \/ Start
    \/ GetConnection
    \/ OpenCursor
    \/ Classify
    \/ ResolveIntent
    \/ CannedExecute
    \/ CannedExplain
    \/ CannedClose
    \/ Retrieve
    \/ GenerateAnswer
    \/ GenerateSql
    \/ Execute_
    \/ Explain
    \/ Close
    \/ NextInvocation

\* run_query, called again and again.
Spec == Init /\ [][Next]_vars

\* The sanitizer, applied again and again.
SanSpec == Init /\ [][SanNext]_vars

----------------------------------------------------------------------------
(* Helpers of the properties.                                              *)

IsNone(v) == v.type = "NoneType"

Select == <<"s", "e", "l", "e", "c", "t">>

\* The statements of resolver steps 5 to 9.
AggregateStatements == {SqlCount, SqlSum, SqlAvg, SqlMax, SqlMin}

\* The keyword set as the specification lists it (section 4.1).
SpecKeywords ==
    {<<"h", "o", "w", " ", "m", "a", "n", "y">>, <<"c", "o", "u", "n", "t">>, <<"a", "v", "e", "r", "a", "g", "e">>, <<"s", "u", "m">>, <<"t", "o", "t", "a", "l">>, <<"r", "o", "w", "s">>, <<"m", "a", "x", "i", "m", "u", "m">>,
     <<"m", "i", "n", "i", "m", "u", "m">>, <<"n", "u", "m", "b", "e", "r", " ", "o", "f">>, <<"t", "o", "t", "a", "l", " ", "n", "u", "m", "b", "e", "r">>, <<"a", "g", "e">>, <<"s", "a", "l", "a", "r", "y">>}

\* The maximal runs of word characters of s, as pairs of positions.
WordRuns(s) ==
    {r \in (1..Len(s)) \X (1..Len(s)) :
        /\ r[1] <= r[2]
        /\ \A i \in r[1]..r[2] : s[i] \in WordChars
        /\ r[1] = 1 \/ s[r[1] - 1] \notin WordChars
        /\ r[2] = Len(s) \/ s[r[2] + 1] \notin WordChars}

\* The runs that are longer than two characters and no stopword.
SignificantRuns(s) ==
    {r \in WordRuns(s) :
        /\ r[2] - r[1] + 1 > 2
        /\ Lower(SubSeq(s, r[1], r[2])) \notin STOPWORDS}

\* The rows of the table a token's wildcard search selects, as a set.
Matches(token) == {Search(Wildcard(token))[i] : i \in 1..Len(Search(Wildcard(token)))}

\* <<k, i>>: the row is the i-th row of the k-th token's search.
Sightings(tokens, row) ==
    {p \in (1..Len(tokens)) \X (1..Len(people_info)) :
        /\ p[2] <= Len(Search(Wildcard(tokens[p[1]])))
        /\ Search(Wildcard(tokens[p[1]]))[p[2]] = row}

Before(p, q) == p[1] < q[1] \/ (p[1] = q[1] /\ p[2] < q[2])

\* Row a was seen by the token loop before row b was.
SeenFirst(tokens, a, b) ==
    \E p \in Sightings(tokens, a) : \A q \in Sightings(tokens, b) : Before(p, q)

----------------------------------------------------------------------------
(* The properties.                                                         *)

\* C1: whenever run_query returns after the connection was opened, the
\* connection has been closed exactly once, and so has the cursor if it was
\* opened; neither is ever closed twice.
C1_ClosedExactlyOnce ==
    /\ conn.closes <= 1
    /\ cursor.closes <= 1
    /\ pc = "returned" =>
        /\ conn.opened => conn.closes = 1
        /\ cursor.opened => cursor.closes = 1

C3_EveryExecutedBeginsWithSelect ==
    /\ ~IsNone(result) /\ ~StartsWith(Lower(sql), Select) =>
        result = PyStr(Advisory) /\ executed = <<>>
    /\ \A i \in 1..Len(executed) : StartsWith(Lower(executed[i].stmt), Select)

\* C3 as amended: a statement that does not begin with "select" is answered
\* with the advisory string without a call of cursor.execute; every statement
\* execute_sql hands to cursor.execute begins with "select", and the
\* statement of the retrieval engine begins with "select" only after its
\* leading whitespace.
C3_GuardedExecute ==
    /\ ~IsNone(result) /\ ~StartsWith(Lower(sql), Select) =>
        result = PyStr(Advisory) /\ executed = <<>>
    /\ \A i \in 1..Len(executed) :
        /\ StartsWith(Lower(LStrip(executed[i].stmt)), Select)
        /\ executed[i].stmt # RetrievalSql => StartsWith(Lower(executed[i].stmt), Select)
        /\ executed[i].stmt = RetrievalSql => ~StartsWith(Lower(executed[i].stmt), Select)

\* C3 witness: a generated statement that is no SELECT was rejected with the
\* advisory string and nothing was executed.
C3_Witness ==
    /\ pc = "returned"
    /\ sql # <<>>
    /\ ~StartsWith(Lower(sql), Select)
    /\ out.sql_result = PyStr(Advisory)
    /\ executed = <<>>

\* C4 as claimed: the sanitizer is idempotent on every input.
C4_Idempotent == sanPc = "twice" => twice = once

\* C4 as amended: the sanitizer applied to its own result gives that result
\* again whenever the result does not itself begin with a triple backtick or,
\* case-insensitively, with a sql tag line.
C4_IdempotentOnCleanResults ==
    sanPc = "twice" /\ ~StartsWith(once, Fence) /\ ~StartsWith(Lower(once), SqlTag) =>
        twice = once

\* C4 witness: a fenced and tagged output with text after the first ';' was
\* sanitized twice.
C4_Witness ==
    /\ sanPc = "twice"
    /\ StartsWith(raw, Fence)
    /\ Contains(raw, <<";", "\n">>)
    /\ once = <<"S", "E", "L", "E", "C", "T", " ", "1", ";">>
    /\ twice = once

\* C5: the sanitizer's result ends with ';' and holds no other ';', and the
\* fenced output of the round-trip scenario gives exactly SELECT 1;
C5_SingleStatement ==
    sanPc # "start" =>
        /\ once # <<>>
        /\ once[Len(once)] = ";"
        /\ \A i \in 1..(Len(once) - 1) : once[i] # ";"
        /\ raw = FencedSelect1 => once = <<"S", "E", "L", "E", "C", "T", " ", "1", ";">>

\* C5 witness: the fenced output of the scenario was sanitized to SELECT 1;
C5_Witness ==
    /\ sanPc = "once"
    /\ raw = FencedSelect1
    /\ once = <<"S", "E", "L", "E", "C", "T", " ", "1", ";">>

\* C6: a query is classified analytical exactly if its lower-cased text holds
\* one of the keywords; a query that holds "age" takes the generate-SQL
\* branch and never the canned list-ages intent; "who is Asmi?" is retrieval.
C6_KeywordsForceAnalytical ==
    /\ query_type # "" =>
        query_type = IF ContainsAny(Lower(user_query), SpecKeywords)
                     THEN "sql_query" ELSE "retrieval"
    /\ query_type # "" /\ Contains(Lower(user_query), <<"a", "g", "e">>) =>
        /\ query_type = "sql_query"
        /\ intent = NoIntent
        /\ pc \in {"generate", "execute", "explain", "close", "returned"}
        /\ pc \in {"execute", "explain", "close"} => calls.generate_sql = 1
    /\ intent.sql # SqlAges
    /\ query_type # "" /\ user_query = <<"w", "h", "o", " ", "i", "s", " ", "A", "s", "m", "i", "?">> => query_type = "retrieval"

\* C6 witness: a query with "Ages" in capitals has taken the generate-SQL
\* branch.
C6_Witness ==
    /\ pc = "execute"
    /\ Contains(user_query, <<"A", "g", "e", "s">>)
    /\ calls.generate_sql = 1
    /\ query_type = "sql_query"

\* C7 as claimed: run_query never executes a canned COUNT, SUM, AVG, MAX or
\* MIN statement returned by parse_intent.
C7_NoCannedAggregate == intent.sql \notin AggregateStatements

\* C7 as amended: run_query never executes the canned COUNT, SUM or AVG
\* statement; it executes the canned MAX statement only for a query that
\* holds "oldest" and the canned MIN statement only for one that holds
\* "youngest", and such a query is classified retrieval.
C7_OnlyOldestYoungest ==
    /\ intent.sql \notin {SqlCount, SqlSum, SqlAvg}
    /\ intent.sql = SqlMax =>
        Contains(Lower(user_query), <<"o", "l", "d", "e", "s", "t">>) /\ query_type = "retrieval"
    /\ intent.sql = SqlMin =>
        Contains(Lower(user_query), <<"y", "o", "u", "n", "g", "e", "s", "t">>) /\ query_type = "retrieval"

\* C7 witness: the canned MAX statement of step 8 was executed.
C7_Witness ==
    /\ pc = "returned"
    /\ intent.sql = SqlMax
    /\ executed = <<Execute(SqlMax, <<>>)>>
    /\ out.generated_sql = PyStr(SqlMax)

\* C8: in a completed retrieve_from_db that did not take the name shortcut,
\* the token searches run only after an empty full-query search; the tokens
\* are the word runs longer than two characters that are no stopwords, in
\* order; rows found by the full-query search are returned unchanged after a
\* single execute; and the fallback returns every row some token matches
\* exactly once, no two with the same id, in first-seen order.
C8_TokenFallback ==
    trace.completed /\ ~trace.shortcut =>
        /\ trace.tokens # <<>> => trace.full = <<>>
        /\ Len(executed) = 1 + Len(trace.tokens)
        /\ trace.full # <<>> => trace.results = trace.full /\ Len(executed) = 1
        /\ trace.full = Search(Wildcard(user_query))
        /\ trace.full = <<>> =>
            /\ Len(trace.tokens) = Cardinality(SignificantRuns(user_query))
            /\ \A r \in SignificantRuns(user_query) :
                trace.tokens[1 + Cardinality({x \in SignificantRuns(user_query) : x[1] < r[1]})]
                    = SubSeq(user_query, r[1], r[2])
            /\ \A k \in 2..(1 + Len(trace.tokens)) :
                executed[k] = Execute(RetrievalSql, Wildcard(trace.tokens[k - 1]))
            /\ {trace.results[i] : i \in 1..Len(trace.results)}
                   = UNION {Matches(trace.tokens[k]) : k \in 1..Len(trace.tokens)}
            /\ \A i, j \in 1..Len(trace.results) :
                i < j =>
                    /\ trace.results[i][1] # trace.results[j][1]
                    /\ SeenFirst(trace.tokens, trace.results[i], trace.results[j])

\* C8 witness: the full-query search found nothing, two tokens were searched,
\* one row matched both and is returned once, ahead of the rows seen later.
C8_Witness ==
    /\ trace.completed
    /\ trace.full = <<>>
    /\ Len(trace.tokens) = 2
    /\ Matches(trace.tokens[1]) \cap Matches(trace.tokens[2]) # {}
    /\ Len(trace.results) = 3

C10_NameShortcutNeverTaken ==
    /\ trace.called =>
        /\ ~trace.shortcut
        /\ ~NameShortcut(user_query)
        /\ executed # <<>>
        /\ executed[1] = Execute(RetrievalSql, Wildcard(user_query))
    /\ Contains(Lower(user_query), <<"n", "a", "m", "e">>) /\ query_type = "retrieval"
           /\ pc \notin {"intent", "classify"} =>
        /\ intent.sql = SqlNames
        /\ calls.retrieve_from_db = 0

\* C10 witness: a query that fulfils the condition of the name shortcut was
\* answered by the name-listing intent, and retrieve_from_db was not called.
C10_Witness ==
    /\ pc = "returned"
    /\ NameShortcut(user_query)
    /\ query_type = "retrieval"
    /\ intent.sql = SqlNames
    /\ calls.retrieve_from_db = 0
    /\ executed = <<Execute(SqlNames, <<>>)>>

====
